---- MODULE Spec2Model ----
(***************************************************************************)
(* Model of the schedule generator of eod-scheduler (services package):    *)
(* GenerateSchedule, CreateManualOverride, UpdateScheduleEntry and         *)
(* RemoveManualOverride, over the schedule, team and working-hours         *)
(* repositories.                                                           *)
(*                                                                         *)
(* Time is counted in hours since 2000-01-01 00:00 UTC; a calendar date is *)
(* a day number (days since 2000-01-01).  All times are UTC, as in the     *)
(* repository's tests.                                                     *)
(***************************************************************************)
EXTENDS Integers, Sequences, FiniteSets, TLC

\* ------------------------------------------------------------------ bounds
\* How many service calls (GenerateSchedule, CreateManualOverride,
\* RemoveManualOverride) a behaviour makes.
MaxOps == 3
\* How many times the clock advances.
MaxTicks == 1
\* How many collaborator calls fail in a behaviour.
MaxFailures == 1
\* A failure is injected into the first MaxFailIndex calls of one kind.
MaxFailIndex == 2
\* A human edits entries dated at most this many days after today.
OverrideSpan == 2
\* How many service calls a behaviour of the edited schedule makes.
MaxEdits == 4
\* How many generation runs can be under way at once.
MaxRuns == 2
\* How many generation runs are served alone, next to those.
MaxRunsAlone == 1
\* How many times the clock advances around the end of a month.
MaxDays == 2

\* ------------------------------------------------------- program constants
HoursPerDay == 24
\* the epoch, Monday 2000-01-03, as a day number
EpochDay == 2
\* regeneration is due after this many days
FreshnessDays == 7
\* the horizon, in calendar months
HorizonMonths == 3
\* an absent *int (OriginalTeamMemberID == nil)
NoMember == 0

\* ---------------------------------------------------------------- calendar
\* time.Time.Format("2006-01-02") of a UTC time: its calendar day.
Format(t) == t \div HoursPerDay

\* the clock time within the day
Clock(t) == t % HoursPerDay

\* time.Parse("2006-01-02", s): midnight UTC of the day.
ParseDate(day) == day * HoursPerDay

\* time.Time.Weekday() of a UTC time: 0 = Sunday .. 6 = Saturday.
\* 2000-01-01 was a Saturday.
Weekday(t) == (Format(t) + 6) % 7

IsLeap(y) == (y % 4 = 0 /\ y % 100 # 0) \/ y % 400 = 0

\* days of month m0, counted in months since January 2000
DaysIn(m0) ==
    LET y == 2000 + (m0 \div 12)
        m == (m0 % 12) + 1
    IN  IF m = 2 THEN (IF IsLeap(y) THEN 29 ELSE 28)
        ELSE IF m \in {4, 6, 9, 11} THEN 30 ELSE 31

RECURSIVE DaysBefore(_)
DaysBefore(m0) == IF m0 = 0 THEN 0 ELSE DaysBefore(m0 - 1) + DaysIn(m0 - 1)

\* the months of 2000 and 2001
Months == 0..23

\* day number of the first day of month m0
MonthStart == [m0 \in 0..24 |-> DaysBefore(m0)]

MonthIndex(day) ==
    CHOOSE m0 \in Months : MonthStart[m0] <= day /\ day < MonthStart[m0 + 1]

\* time.Time.AddDate(0, months, days): the date fields are added and the
\* result is normalised (April 31 becomes May 1); the clock time is kept.
AddDate(t, months, days) ==
    IF months = 0 THEN t + days * HoursPerDay
    ELSE LET day == Format(t)
             m0  == MonthIndex(day)
             dom == day - MonthStart[m0]
         IN  (MonthStart[m0 + months] + dom + days) * HoursPerDay + Clock(t)

\* GetWeekdayNumber without the conversion: 0 = Sunday .. 6 = Saturday
GetWeekdayNumber_Unconverted(t) == Weekday(t)

\* models.GetWeekdayNumber: 0 = Monday .. 6 = Sunday
GetWeekdayNumber(t) ==
    LET weekday == Weekday(t)
    IN  IF weekday = 0 THEN 6 ELSE weekday - 1

\* ------------------------------------------------------------------- state
VARIABLES
    now,            \* the clock: timeNow() and time.Now()
    team,           \* team_members rows, in GetActiveMembers' order
    workingHours,   \* working_hours rows, ordered by day_of_week
    entries,        \* schedule_entries rows
    nextID,         \* the AUTOINCREMENT counter of schedule_entries
    scheduleState,  \* the schedule_state row
    last,           \* the last service call: its inputs, calls and outcome
    budget,         \* how many calls, ticks and failures remain
    runs            \* the generation runs that share the rows: where each
                    \* stands and what it holds

vars ==
    <<now, team, workingHours, entries, nextID, scheduleState, last, budget, runs>>

\* ------------------------------------------------------------ repositories
\* the failure injected into a service call: the n-th call of `call` fails
NoFail == [call |-> "none", n |-> 0]

NumCalls(log, name) == Cardinality({i \in DOMAIN log : log[i].call = name})

\* whether the next call of `name` in the run r is the one that fails
WillFail(r, name) ==
    r.fail.call = name /\ r.fail.n = NumCalls(r.log, name) + 1

Logged(r, name, arg, ok) ==
    [r EXCEPT !.log = Append(@, [call |-> name, arg |-> arg, ok |-> ok])]

\* the outcome of the last call the run made
LastOk(r) == r.log[Len(r.log)].ok

\* teamRepository.GetActiveMembers: WHERE active = 1, in table order
GetActiveMembers(rows) == SelectSeq(rows, LAMBDA m : m.active)

\* workingHoursRepository.GetActiveDays: WHERE active = 1 ORDER BY day_of_week
GetActiveDays(rows) == SelectSeq(rows, LAMBDA wh : wh.active)

\* GetByDay handing over the first row whatever the weekday
GetByDay_FirstRow(rows, dayOfWeek) == SubSeq(rows, 1, 1)

\* workingHoursRepository.GetByDay: the row of that weekday, <<>> if none
GetByDay(rows, dayOfWeek) ==
    SelectSeq(rows, LAMBDA wh : wh.dayOfWeek = dayOfWeek)

\* ORDER BY date, start_time (then by rowid)
RowBefore(a, b) ==
    \/ a.date < b.date
    \/ a.date = b.date /\ a.startTime < b.startTime
    \/ a.date = b.date /\ a.startTime = b.startTime /\ a.id < b.id

\* the rows of S in that order
SortRows(S) ==
    LET rank == [e \in S |-> Cardinality({o \in S : RowBefore(o, e)})]
    IN  [i \in 1..Cardinality(S) |-> CHOOSE e \in S : rank[e] = i - 1]

\* scheduleRepository.GetByDateRange: WHERE date >= from AND date <= to
\* ORDER BY date, start_time; both ends are formatted as dates
GetByDateRange(rows, from, to) ==
    SortRows({e \in rows : Format(from) <= e.date /\ e.date <= Format(to)})

\* scheduleRepository.GetByDate
GetByDate(rows, date) == GetByDateRange(rows, date, date)

\* scheduleRepository.Create: the date is stored formatted, the row gets the
\* next id, which is written back into the entry
Create(r, entry) ==
    IF WillFail(r, "Create")
    THEN Logged(r, "Create", [entry EXCEPT !.date = Format(entry.date)], FALSE)
    ELSE LET row == [entry EXCEPT !.id = r.nextID, !.date = Format(entry.date)]
         IN  [Logged(r, "Create", row, TRUE) EXCEPT
                 !.entries = @ \cup {row}, !.nextID = @ + 1]

\* scheduleRepository.Delete: fails when no row has the id
Delete(r, id) ==
    IF WillFail(r, "Delete") \/ ~(\E e \in r.entries : e.id = id)
    THEN Logged(r, "Delete", id, FALSE)
    ELSE [Logged(r, "Delete", id, TRUE) EXCEPT
             !.entries = {e \in @ : e.id # id}]

\* scheduleRepository.Update: the row of the entry's id gets the entry's
\* fields, the date formatted; fails when no row has the id
Update(r, entry) ==
    LET row == [entry EXCEPT !.date = Format(entry.date)]
    IN  IF WillFail(r, "Update") \/ ~(\E e \in r.entries : e.id = entry.id)
        THEN Logged(r, "Update", row, FALSE)
        ELSE [Logged(r, "Update", row, TRUE) EXCEPT
                 !.entries = {e \in @ : e.id # entry.id} \cup {row}]

\* scheduleRepository.UpdateState: INSERT OR REPLACE of the formatted date
UpdateState(r, lastGenerationDate) ==
    IF WillFail(r, "UpdateState") THEN Logged(r, "UpdateState", lastGenerationDate, FALSE)
    ELSE [Logged(r, "UpdateState", lastGenerationDate, TRUE) EXCEPT
             !.state = [present |-> TRUE,
                        lastGenerationDate |-> Format(lastGenerationDate)]]

\* GetState writing today's date into the row on every read
GetState_AlwaysInitialises(r) ==
    IF WillFail(r, "GetState")
    THEN [r |-> Logged(r, "GetState", 0, FALSE), lastGenerationDate |-> 0]
    ELSE [r |-> [Logged(r, "GetState", 0, TRUE) EXCEPT
                    !.state = [present |-> TRUE,
                               lastGenerationDate |-> Format(now)]],
          lastGenerationDate |-> ParseDate(r.state.lastGenerationDate)]

\* scheduleRepository.GetState: the stored date read back as a time; an
\* absent row is initialised with time.Now() and that value is returned.
\* The result is the run and the LastGenerationDate of the returned state.
GetState(r) ==
    IF WillFail(r, "GetState")
    THEN [r |-> Logged(r, "GetState", 0, FALSE), lastGenerationDate |-> 0]
    ELSE IF r.state.present
    THEN [r |-> Logged(r, "GetState", 0, TRUE),
          lastGenerationDate |-> ParseDate(r.state.lastGenerationDate)]
    ELSE [r |-> [Logged(r, "GetState", 0, TRUE) EXCEPT
                    !.state = [present |-> TRUE,
                               lastGenerationDate |-> Format(now)]],
          lastGenerationDate |-> now]

\* ------------------------------------------------- schedule generation
\* the error a failed repository call returns
DbError == <<"database error">>

\* time.Time{}: the zero value of an unset time
NoTime == -1

\* a *GenerationResult that is nil
NoResult ==
    [success |-> FALSE, message |-> <<>>, entriesCreated |-> 0,
     generationDate |-> NoTime, nextGenerationDue |-> NoTime]

\* what a service call returns: the run, the result and the error (<<>>: nil)
Return(r, hasResult, result, error) ==
    [r |-> r, hasResult |-> hasResult, result |-> result, error |-> error]

\* validateScheduleGeneration with the working days fetched before the
\* member count is looked at
validateScheduleGeneration_CountsLate(r) ==
    LET r1 == Logged(r, "GetActiveMembers", 0, ~WillFail(r, "GetActiveMembers"))
        activeMembers == GetActiveMembers(team)
        r2 == Logged(r1, "GetActiveDays", 0, ~WillFail(r1, "GetActiveDays"))
        activeDays == GetActiveDays(workingHours)
    IN  IF ~LastOk(r1)
        THEN [r |-> r1, err |-> <<"failed to get active team members">> \o DbError]
        ELSE IF ~LastOk(r2)
        THEN [r |-> r2, err |-> <<"failed to get active working days">> \o DbError]
        ELSE IF Len(activeMembers) = 0
        THEN [r |-> r2,
              err |-> <<"no active team members found",
                        "Add team members before generating schedule">>]
        ELSE IF Len(activeDays) = 0
        THEN [r |-> r2,
              err |-> <<"no active working days found",
                        "Configure working hours before generating schedule">>]
        ELSE [r |-> r2, err |-> <<>>]

\* validateScheduleGeneration with the errors of the two fetches dropped
validateScheduleGeneration_DropsFetchErrors(r) ==
    LET r1 == Logged(r, "GetActiveMembers", 0, ~WillFail(r, "GetActiveMembers"))
        activeMembers == GetActiveMembers(team)
        r2 == Logged(r1, "GetActiveDays", 0, ~WillFail(r1, "GetActiveDays"))
        activeDays == GetActiveDays(workingHours)
    IN  IF Len(activeMembers) = 0
        THEN [r |-> r1,
              err |-> <<"no active team members found",
                        "Add team members before generating schedule">>]
        ELSE IF Len(activeDays) = 0
        THEN [r |-> r2,
              err |-> <<"no active working days found",
                        "Configure working hours before generating schedule">>]
        ELSE [r |-> r2, err |-> <<>>]

\* validateScheduleGeneration: the error, <<>> when generation is possible
validateScheduleGeneration(r) ==
    LET r1 == Logged(r, "GetActiveMembers", 0, ~WillFail(r, "GetActiveMembers"))
        activeMembers == GetActiveMembers(team)
        r2 == Logged(r1, "GetActiveDays", 0, ~WillFail(r1, "GetActiveDays"))
        activeDays == GetActiveDays(workingHours)
    IN  IF ~LastOk(r1)
        THEN [r |-> r1, err |-> <<"failed to get active team members">> \o DbError]
        ELSE IF Len(activeMembers) = 0
        THEN [r |-> r1,
              err |-> <<"no active team members found",
                        "Add team members before generating schedule">>]
        ELSE IF ~LastOk(r2)
        THEN [r |-> r2, err |-> <<"failed to get active working days">> \o DbError]
        ELSE IF Len(activeDays) = 0
        THEN [r |-> r2,
              err |-> <<"no active working days found",
                        "Configure working hours before generating schedule">>]
        ELSE [r |-> r2, err |-> <<>>]

\* int(x / y) of Go: the quotient truncated towards zero
Truncate(x, y) == IF x >= 0 THEN x \div y ELSE -((-x) \div y)

\* isScheduleUpToDate with the comparison turned round
isScheduleUpToDate_Inverted(lastGenerationDate) ==
    LET daysSinceLastGen == Truncate(now - lastGenerationDate, HoursPerDay)
    IN  daysSinceLastGen > FreshnessDays

\* isScheduleUpToDate: int(time.Since(last).Hours() / 24) < 7
isScheduleUpToDate(lastGenerationDate) ==
    LET daysSinceLastGen == Truncate(now - lastGenerationDate, HoursPerDay)
    IN  daysSinceLastGen < FreshnessDays

\* createUpToDateResult
createUpToDateResult(lastGenerationDate) ==
    [success |-> TRUE, message |-> <<"Schedule is up to date">>,
     entriesCreated |-> 0,
     generationDate |-> lastGenerationDate,
     nextGenerationDue |-> AddDate(lastGenerationDate, 0, FreshnessDays)]

\* the freshness gate without the force flag
skipsRegeneration_IgnoresForce(force, lastGenerationDate) ==
    isScheduleUpToDate(lastGenerationDate)

\* GenerateSchedule, the freshness gate: whether the run returns the
\* up-to-date result instead of regenerating
skipsRegeneration(force, lastGenerationDate) ==
    ~force /\ isScheduleUpToDate(lastGenerationDate)

\* getGenerationData: the second fetch of members and working days
getGenerationData(r) ==
    LET r1 == Logged(r, "GetActiveMembers", 0, ~WillFail(r, "GetActiveMembers"))
        r2 == Logged(r1, "GetActiveDays", 0, ~WillFail(r1, "GetActiveDays"))
    IN  IF ~LastOk(r1)
        THEN [r |-> r1, activeMembers |-> <<>>, activeDays |-> <<>>,
              err |-> <<"failed to get active team members">> \o DbError]
        ELSE IF ~LastOk(r2)
        THEN [r |-> r2, activeMembers |-> <<>>, activeDays |-> <<>>,
              err |-> <<"failed to get active working days">> \o DbError]
        ELSE [r |-> r2, activeMembers |-> GetActiveMembers(team),
              activeDays |-> GetActiveDays(workingHours), err |-> <<>>]

\* the cleanup deleting none of the fetched entries
isDeletedByCleanup_None(entry) == FALSE

\* the cleanup deleting every fetched entry
isDeletedByCleanup_Any(entry) == TRUE

\* cleanupExistingEntries, the condition of the loop body: which of the
\* fetched entries is deleted
isDeletedByCleanup(entry) == ~entry.isManualOverride

\* the cleanup loop deleting nothing
cleanupLoop_DeletesNothing(r, existingEntries, lo, hi) ==
    [r |-> r, err |-> <<>>]

RECURSIVE cleanupLoop_IgnoresFailedDelete(_, _, _, _)
\* the cleanup loop going on after a failed Delete
cleanupLoop_IgnoresFailedDelete(r, existingEntries, lo, hi) ==
    IF lo > hi THEN [r |-> r, err |-> <<>>]
    ELSE IF lo = hi
    THEN IF isDeletedByCleanup(existingEntries[lo])
         THEN [r |-> Delete(r, existingEntries[lo].id), err |-> <<>>]
         ELSE [r |-> r, err |-> <<>>]
    ELSE LET mid == (lo + hi) \div 2
             first == cleanupLoop_IgnoresFailedDelete(r, existingEntries, lo, mid)
         IN  IF first.err # <<>> THEN first
             ELSE cleanupLoop_IgnoresFailedDelete(first.r, existingEntries,
                                                  mid + 1, hi)

RECURSIVE cleanupLoop(_, _, _, _)
\* cleanupExistingEntries, the loop: the iterations lo..hi over the fetched
\* entries, in order, stopping at the first failed Delete
cleanupLoop(r, existingEntries, lo, hi) ==
    IF lo > hi THEN [r |-> r, err |-> <<>>]
    ELSE IF lo = hi
    THEN IF isDeletedByCleanup(existingEntries[lo])
         THEN LET r1 == Delete(r, existingEntries[lo].id)
              IN  IF ~LastOk(r1)
                  THEN [r |-> r1,
                        err |-> <<"failed to delete existing entry">> \o DbError]
                  ELSE [r |-> r1, err |-> <<>>]
         ELSE [r |-> r, err |-> <<>>]
    ELSE LET mid == (lo + hi) \div 2
             first == cleanupLoop(r, existingEntries, lo, mid)
         IN  IF first.err # <<>> THEN first
             ELSE cleanupLoop(first.r, existingEntries, mid + 1, hi)

\* cleanupExistingEntries with a window that starts today
cleanupExistingEntries_FromToday(r) ==
    LET today == now
        startDate == today
        futureEnd == AddDate(today, HorizonMonths, 0)
        r1 == Logged(r, "GetByDateRange", <<Format(startDate), Format(futureEnd)>>,
                     ~WillFail(r, "GetByDateRange"))
        existingEntries == GetByDateRange(r.entries, startDate, futureEnd)
    IN  IF ~LastOk(r1)
        THEN [r |-> r1, err |-> <<"failed to get existing entries">> \o DbError]
        ELSE cleanupLoop(r1, existingEntries, 1, Len(existingEntries))

\* cleanupExistingEntries: the window is [tomorrow, today + 3 months]
cleanupExistingEntries(r) ==
    LET today == now
        startDate == AddDate(today, 0, 1)
        futureEnd == AddDate(today, HorizonMonths, 0)
        r1 == Logged(r, "GetByDateRange", <<Format(startDate), Format(futureEnd)>>,
                     ~WillFail(r, "GetByDateRange"))
        existingEntries == GetByDateRange(r.entries, startDate, futureEnd)
    IN  IF ~LastOk(r1)
        THEN [r |-> r1, err |-> <<"failed to get existing entries">> \o DbError]
        ELSE cleanupLoop(r1, existingEntries, 1, Len(existingEntries))

\* findWorkingHoursForDay: the first record of that weekday, <<>> for nil
findWorkingHoursForDay(activeDays, weekday) ==
    LET found == SelectSeq(activeDays, LAMBDA wh : wh.dayOfWeek = weekday)
    IN  IF found = <<>> THEN <<>> ELSE <<found[1]>>

\* hasManualOverride never finding an override
hasManualOverride_Never(r, date) ==
    LET r1 == Logged(r, "GetByDate", Format(date), ~WillFail(r, "GetByDate"))
    IN  IF ~LastOk(r1) THEN [r |-> r1, has |-> FALSE, err |-> DbError]
        ELSE [r |-> r1, has |-> FALSE, err |-> <<>>]

\* hasManualOverride: whether the entries fetched for the date hold an override
hasManualOverride(r, date) ==
    LET r1 == Logged(r, "GetByDate", Format(date), ~WillFail(r, "GetByDate"))
        existingForDay == GetByDate(r.entries, date)
    IN  IF ~LastOk(r1) THEN [r |-> r1, has |-> FALSE, err |-> DbError]
        ELSE [r |-> r1,
              has |-> \E i \in DOMAIN existingForDay :
                         existingForDay[i].isManualOverride,
              err |-> <<>>]

RECURSIVE collectLoop(_, _, _, _, _)
\* collectWorkingDates, the loop: the iterations lo..hi over the dates
\* startDate, startDate + 1 day, ..., in order, stopping at the first failed
\* lookup; iteration i is about the date startDate + (i - 1) days
collectLoop(r, activeDays, startDate, lo, hi) ==
    IF lo > hi THEN [r |-> r, workingDates |-> <<>>, err |-> <<>>]
    ELSE IF lo = hi
    THEN LET date == AddDate(startDate, 0, lo - 1)
             weekday == GetWeekdayNumber(date)
             found == findWorkingHoursForDay(activeDays, weekday)
             h == hasManualOverride(r, date)
         IN  IF found = <<>>
             THEN [r |-> r, workingDates |-> <<>>, err |-> <<>>]
             ELSE IF h.err # <<>>
             THEN [r |-> h.r, workingDates |-> <<>>,
                   err |-> <<"failed to check existing entries for date">> \o h.err]
             ELSE IF h.has
             THEN [r |-> h.r, workingDates |-> <<>>, err |-> <<>>]
             ELSE [r |-> h.r,
                   workingDates |-> <<[date |-> date, workingHours |-> found[1]]>>,
                   err |-> <<>>]
    ELSE LET mid == (lo + hi) \div 2
             first == collectLoop(r, activeDays, startDate, lo, mid)
             rest == collectLoop(first.r, activeDays, startDate, mid + 1, hi)
         IN  IF first.err # <<>> THEN first
             ELSE IF rest.err # <<>> THEN rest
             ELSE [r |-> rest.r,
                   workingDates |-> first.workingDates \o rest.workingDates,
                   err |-> <<>>]

\* collectWorkingDates starting today whatever today holds
collectWorkingDates_FromToday(r, activeDays) ==
    LET today == now
        r1 == Logged(r, "GetByDate", Format(today), ~WillFail(r, "GetByDate"))
        startDate == today
        futureEnd == AddDate(today, HorizonMonths, 0)
        iterations ==
            Cardinality({k \in 0..((futureEnd - startDate) \div HoursPerDay) :
                            AddDate(startDate, 0, k) < futureEnd})
    IN  IF ~LastOk(r1)
        THEN [r |-> r1, workingDates |-> <<>>,
              err |-> <<"failed to check today's entries">> \o DbError]
        ELSE collectLoop(r1, activeDays, startDate, 1, iterations)

\* collectWorkingDates: from today, or from tomorrow when today has entries,
\* up to today + 3 months (exclusive: date.Before(futureEnd))
collectWorkingDates(r, activeDays) ==
    LET today == now
        r1 == Logged(r, "GetByDate", Format(today), ~WillFail(r, "GetByDate"))
        todayEntries == GetByDate(r.entries, today)
        startDate == IF Len(todayEntries) = 0 THEN today ELSE AddDate(today, 0, 1)
        futureEnd == AddDate(today, HorizonMonths, 0)
        iterations ==
            Cardinality({k \in 0..((futureEnd - startDate) \div HoursPerDay) :
                            AddDate(startDate, 0, k) < futureEnd})
    IN  IF ~LastOk(r1)
        THEN [r |-> r1, workingDates |-> <<>>,
              err |-> <<"failed to check today's entries">> \o DbError]
        ELSE collectLoop(r1, activeDays, startDate, 1, iterations)

\* the loop counting every calendar day, working or not
countWorkingDays_EveryDay(epoch, date, activeWeekdays) ==
    Cardinality({k \in 0..((date - epoch) \div HoursPerDay) :
        AddDate(epoch, 0, k) < date})

\* calculateWorkingDaysSinceEpoch, the loop: the days d = epoch, epoch + 1
\* day, ... with d.Before(date) whose weekday is in the map
countWorkingDays(epoch, date, activeWeekdays) ==
    Cardinality({k \in 0..((date - epoch) \div HoursPerDay) :
        /\ AddDate(epoch, 0, k) < date
        /\ Weekday(AddDate(epoch, 0, k)) \in activeWeekdays})

\* calculateWorkingDaysSinceEpoch: the map of the active weekdays, in Go's
\* numbering (0 = Sunday), and the count
calculateWorkingDaysSinceEpoch(date, activeDays) ==
    LET epoch == ParseDate(EpochDay)
        activeWeekdays ==
            {(activeDays[i].dayOfWeek + 1) % 7 :
                i \in {j \in DOMAIN activeDays : activeDays[j].active}}
    IN  IF date < epoch THEN 0
        ELSE countWorkingDays(epoch, date, activeWeekdays)

\* createScheduleEntry
createScheduleEntry(workingDate, activeMembers, activeDays) ==
    LET workingDaysSinceEpoch ==
            calculateWorkingDaysSinceEpoch(workingDate.date, activeDays)
        memberIndex == workingDaysSinceEpoch % Len(activeMembers)
    IN  [id |-> 0,
         date |-> workingDate.date,
         teamMemberID |-> activeMembers[memberIndex + 1].id,
         startTime |-> workingDate.workingHours.startTime,
         endTime |-> workingDate.workingHours.endTime,
         isManualOverride |-> FALSE,
         originalTeamMemberID |-> NoMember]

RECURSIVE generateLoop(_, _, _, _, _, _)
\* generateScheduleEntries, the loop: the iterations lo..hi over the working
\* dates, in order, stopping at the first failed Create
generateLoop(r, workingDates, activeMembers, activeDays, lo, hi) ==
    IF lo > hi THEN [r |-> r, entriesCreated |-> 0, err |-> <<>>]
    ELSE IF lo = hi
    THEN LET entry == createScheduleEntry(workingDates[lo], activeMembers, activeDays)
             r1 == Create(r, entry)
         IN  IF ~LastOk(r1)
             THEN [r |-> r1, entriesCreated |-> 0,
                   err |-> <<"failed to create schedule entry">> \o DbError]
             ELSE [r |-> r1, entriesCreated |-> 1, err |-> <<>>]
    ELSE LET mid == (lo + hi) \div 2
             first == generateLoop(r, workingDates, activeMembers, activeDays, lo, mid)
             rest == generateLoop(first.r, workingDates, activeMembers, activeDays,
                                  mid + 1, hi)
         IN  IF first.err # <<>> THEN first
             ELSE IF rest.err # <<>> THEN rest
             ELSE [r |-> rest.r,
                   entriesCreated |-> first.entriesCreated + rest.entriesCreated,
                   err |-> <<>>]

\* generateScheduleEntries
generateScheduleEntries(r, activeMembers, activeDays) ==
    LET c == collectWorkingDates(r, activeDays)
    IN  IF c.err # <<>>
        THEN [r |-> c.r, entriesCreated |-> 0, err |-> c.err]
        ELSE generateLoop(c.r, c.workingDates, activeMembers, activeDays,
                          1, Len(c.workingDates))

\* finalizeGeneration reporting the date as it is stored, without the time
finalizeGeneration_ReportsStoredDate(r, entriesCreated) ==
    LET lastGenerationDate == ParseDate(Format(now))
        r1 == UpdateState(r, now)
    IN  IF ~LastOk(r1)
        THEN Return(r1, FALSE, NoResult,
                    <<"failed to update schedule state">> \o DbError)
        ELSE Return(r1, TRUE,
                 [success |-> TRUE,
                  message |-> <<"Successfully generated schedule with",
                                ToString(entriesCreated), "entries">>,
                  entriesCreated |-> entriesCreated,
                  generationDate |-> lastGenerationDate,
                  nextGenerationDue |-> AddDate(lastGenerationDate, 0, FreshnessDays)],
                 <<>>)

\* finalizeGeneration
finalizeGeneration(r, entriesCreated) ==
    LET lastGenerationDate == now
        r1 == UpdateState(r, lastGenerationDate)
    IN  IF ~LastOk(r1)
        THEN Return(r1, FALSE, NoResult,
                    <<"failed to update schedule state">> \o DbError)
        ELSE Return(r1, TRUE,
                 [success |-> TRUE,
                  message |-> <<"Successfully generated schedule with",
                                ToString(entriesCreated), "entries">>,
                  entriesCreated |-> entriesCreated,
                  generationDate |-> lastGenerationDate,
                  nextGenerationDue |-> AddDate(lastGenerationDate, 0, FreshnessDays)],
                 <<>>)

\* GenerateSchedule
GenerateSchedule(r, force) ==
    LET v == validateScheduleGeneration(r)
        s == GetState(v.r)
        g == getGenerationData(s.r)
        c == cleanupExistingEntries(g.r)
        e == generateScheduleEntries(c.r, g.activeMembers, g.activeDays)
    IN  IF v.err # <<>>
        THEN Return(v.r, TRUE, [NoResult EXCEPT !.message = v.err], <<>>)
        ELSE IF ~LastOk(s.r)
        THEN Return(s.r, FALSE, NoResult,
                    <<"failed to get schedule state">> \o DbError)
        ELSE IF skipsRegeneration(force, s.lastGenerationDate)
        THEN Return(s.r, TRUE, createUpToDateResult(s.lastGenerationDate), <<>>)
        ELSE IF g.err # <<>> THEN Return(g.r, FALSE, NoResult, g.err)
        ELSE IF c.err # <<>> THEN Return(c.r, FALSE, NoResult, c.err)
        ELSE IF e.err # <<>> THEN Return(e.r, FALSE, NoResult, e.err)
        ELSE finalizeGeneration(e.r, e.entriesCreated)

\* ------------------------------------------------------ manual overrides
\* ScheduleEntryForm.Validate and teamRepo.GetByID: the form's member must
\* be selected and exist (the date and the times of the forms drawn here
\* are well formed)
validateFormAndTeamMember(r, form) ==
    IF form.teamMemberID <= 0
    THEN [r |-> r, err |-> <<"validation failed", "Team member must be selected">>]
    ELSE LET known == \E i \in DOMAIN team : team[i].id = form.teamMemberID
             r1 == Logged(r, "TeamGetByID", form.teamMemberID, known)
         IN  IF ~known THEN [r |-> r1, err |-> <<"team member not found">>]
             ELSE [r |-> r1, err |-> <<>>]

\* getExistingEntryWithValidation: the entry as a one-element sequence
getExistingEntryWithValidation(r, id) ==
    LET found == {e \in r.entries : e.id = id}
        r1 == Logged(r, "GetByID", id, found # {})
    IN  IF id <= 0
        THEN [r |-> r, entry |-> <<>>, err |-> <<"invalid schedule entry ID">>]
        ELSE IF found = {}
        THEN [r |-> r1, entry |-> <<>>, err |-> <<"schedule entry not found">>]
        ELSE [r |-> r1, entry |-> <<CHOOSE e \in found : TRUE>>, err |-> <<>>]

\* CreateManualOverride remembering the new member as the original one
CreateManualOverride_KeepsNewMember(r, entryID, form) ==
    LET v == validateFormAndTeamMember(r, form)
        date == ParseDate(form.date)
        x == getExistingEntryWithValidation(v.r, entryID)
        existingEntry == x.entry[1]
        originalTeamMemberID ==
            IF ~existingEntry.isManualOverride
            THEN form.teamMemberID ELSE NoMember
        r1 == IF ~existingEntry.isManualOverride
              THEN Delete(x.r, existingEntry.id) ELSE x.r
        entry == [id |-> 0,
                  date |-> date,
                  teamMemberID |-> form.teamMemberID,
                  startTime |-> form.startTime,
                  endTime |-> form.endTime,
                  isManualOverride |-> TRUE,
                  originalTeamMemberID |-> originalTeamMemberID]
        r2 == Create(r1, entry)
    IN  IF v.err # <<>> THEN Return(v.r, FALSE, NoResult, v.err)
        ELSE IF x.err # <<>>
        THEN Return(x.r, FALSE, NoResult,
                    <<"failed to check existing entries">> \o x.err)
        ELSE IF ~LastOk(r1)
        THEN Return(r1, FALSE, NoResult,
                    <<"failed to delete existing entry">> \o DbError)
        ELSE IF ~LastOk(r2)
        THEN Return(r2, FALSE, NoResult,
                    <<"failed to create manual override">> \o DbError)
        ELSE Return(Logged(r2, "GetByID", r2.nextID - 1, TRUE), TRUE, NoResult, <<>>)

\* CreateManualOverride
CreateManualOverride(r, entryID, form) ==
    LET v == validateFormAndTeamMember(r, form)
        date == ParseDate(form.date)
        x == getExistingEntryWithValidation(v.r, entryID)
        existingEntry == x.entry[1]
        originalTeamMemberID ==
            IF ~existingEntry.isManualOverride
            THEN existingEntry.teamMemberID ELSE NoMember
        r1 == IF ~existingEntry.isManualOverride
              THEN Delete(x.r, existingEntry.id) ELSE x.r
        entry == [id |-> 0,
                  date |-> date,
                  teamMemberID |-> form.teamMemberID,
                  startTime |-> form.startTime,
                  endTime |-> form.endTime,
                  isManualOverride |-> TRUE,
                  originalTeamMemberID |-> originalTeamMemberID]
        r2 == Create(r1, entry)
    IN  IF v.err # <<>> THEN Return(v.r, FALSE, NoResult, v.err)
        ELSE IF x.err # <<>>
        THEN Return(x.r, FALSE, NoResult,
                    <<"failed to check existing entries">> \o x.err)
        ELSE IF ~LastOk(r1)
        THEN Return(r1, FALSE, NoResult,
                    <<"failed to delete existing entry">> \o DbError)
        ELSE IF ~LastOk(r2)
        THEN Return(r2, FALSE, NoResult,
                    <<"failed to create manual override">> \o DbError)
        ELSE Return(Logged(r2, "GetByID", r2.nextID - 1, TRUE), TRUE, NoResult, <<>>)

\* RemoveManualOverride restoring the member of the override itself
RemoveManualOverride_KeepsMember(r, id) ==
    LET found == {e \in r.entries : e.id = id}
        r1 == Logged(r, "GetByID", id, found # {})
        entry == CHOOSE e \in found : TRUE
        r2 == Delete(r1, id)
        goWeekday == Weekday(ParseDate(entry.date))
        dayOfWeek == IF goWeekday = 0 THEN 6 ELSE goWeekday - 1
        rows == GetByDay(workingHours, dayOfWeek)
        r3 == Logged(r2, "GetByDay", dayOfWeek, rows # <<>>)
        restoredEntry == [id |-> 0,
                          date |-> ParseDate(entry.date),
                          teamMemberID |-> entry.teamMemberID,
                          startTime |-> rows[1].startTime,
                          endTime |-> rows[1].endTime,
                          isManualOverride |-> FALSE,
                          originalTeamMemberID |-> NoMember]
        r4 == Create(r3, restoredEntry)
    IN  IF id <= 0
        THEN Return(r, FALSE, NoResult, <<"invalid schedule entry ID">>)
        ELSE IF found = {}
        THEN Return(r1, FALSE, NoResult, <<"schedule entry not found">>)
        ELSE IF ~entry.isManualOverride
        THEN Return(r1, FALSE, NoResult, <<"can only remove manual overrides">>)
        ELSE IF entry.originalTeamMemberID = NoMember
        THEN Return(r1, FALSE, NoResult, <<"missing original team member ID">>)
        ELSE IF ~LastOk(r2)
        THEN Return(r2, FALSE, NoResult,
                    <<"failed to delete manual override">> \o DbError)
        ELSE IF ~LastOk(r3)
        THEN Return(r3, FALSE, NoResult, <<"failed to get working hours">>)
        ELSE IF ~LastOk(r4)
        THEN Return(r4, FALSE, NoResult,
                    <<"failed to restore original assignment">> \o DbError)
        ELSE Return(r4, FALSE, NoResult, <<>>)

\* RemoveManualOverride
RemoveManualOverride(r, id) ==
    LET found == {e \in r.entries : e.id = id}
        r1 == Logged(r, "GetByID", id, found # {})
        entry == CHOOSE e \in found : TRUE
        r2 == Delete(r1, id)
        goWeekday == Weekday(ParseDate(entry.date))
        dayOfWeek == IF goWeekday = 0 THEN 6 ELSE goWeekday - 1
        rows == GetByDay(workingHours, dayOfWeek)
        r3 == Logged(r2, "GetByDay", dayOfWeek, rows # <<>>)
        restoredEntry == [id |-> 0,
                          date |-> ParseDate(entry.date),
                          teamMemberID |-> entry.originalTeamMemberID,
                          startTime |-> rows[1].startTime,
                          endTime |-> rows[1].endTime,
                          isManualOverride |-> FALSE,
                          originalTeamMemberID |-> NoMember]
        r4 == Create(r3, restoredEntry)
    IN  IF id <= 0
        THEN Return(r, FALSE, NoResult, <<"invalid schedule entry ID">>)
        ELSE IF found = {}
        THEN Return(r1, FALSE, NoResult, <<"schedule entry not found">>)
        ELSE IF ~entry.isManualOverride
        THEN Return(r1, FALSE, NoResult, <<"can only remove manual overrides">>)
        ELSE IF entry.originalTeamMemberID = NoMember
        THEN Return(r1, FALSE, NoResult, <<"missing original team member ID">>)
        ELSE IF ~LastOk(r2)
        THEN Return(r2, FALSE, NoResult,
                    <<"failed to delete manual override">> \o DbError)
        ELSE IF ~LastOk(r3)
        THEN Return(r3, FALSE, NoResult, <<"failed to get working hours">>)
        ELSE IF ~LastOk(r4)
        THEN Return(r4, FALSE, NoResult,
                    <<"failed to restore original assignment">> \o DbError)
        ELSE Return(r4, FALSE, NoResult, <<>>)

\* UpdateScheduleEntry
UpdateScheduleEntry(r, id, form) ==
    LET v == validateFormAndTeamMember(r, form)
        x == getExistingEntryWithValidation(v.r, id)
        entry == x.entry[1]
        date == ParseDate(form.date)
        isManualOverride == entry.teamMemberID # form.teamMemberID
        originalTeamMemberID ==
            IF isManualOverride /\ entry.originalTeamMemberID = NoMember
            THEN entry.teamMemberID ELSE entry.originalTeamMemberID
        updated == [id |-> entry.id,
                    date |-> date,
                    teamMemberID |-> form.teamMemberID,
                    startTime |-> form.startTime,
                    endTime |-> form.endTime,
                    isManualOverride |-> isManualOverride,
                    originalTeamMemberID |-> originalTeamMemberID]
        r1 == Update(x.r, updated)
    IN  IF v.err # <<>> THEN Return(v.r, FALSE, NoResult, v.err)
        ELSE IF x.err # <<>> THEN Return(x.r, FALSE, NoResult, x.err)
        ELSE IF ~LastOk(r1)
        THEN Return(r1, FALSE, NoResult,
                    <<"failed to update schedule entry">> \o DbError)
        ELSE Return(Logged(r1, "GetByID", entry.id, TRUE), TRUE, NoResult, <<>>)

\* ----------------------------------------------------------- environment
Member(id, active) == [id |-> id, active |-> active]

Hours(dayOfWeek, startTime, endTime, active) ==
    [dayOfWeek |-> dayOfWeek, startTime |-> startTime, endTime |-> endTime,
     active |-> active]

\* the configurations a behaviour starts from: the team rows in the order of
\* GetActiveMembers and the working-hours rows by weekday (times as HHMM)
Configurations ==
    { \* two active members and a retired one; Monday and Wednesday, with
      \* Friday switched off
      [team |-> <<Member(10, TRUE), Member(20, TRUE), Member(30, FALSE)>>,
       workingHours |-> <<Hours(0, 900, 1700, TRUE), Hours(2, 1000, 1600, TRUE),
                          Hours(4, 900, 1700, FALSE)>>],
      \* three members; Monday, Tuesday and Saturday
      [team |-> <<Member(10, TRUE), Member(20, TRUE), Member(30, TRUE)>>,
       workingHours |-> <<Hours(0, 900, 1700, TRUE), Hours(1, 900, 1700, TRUE),
                          Hours(5, 1000, 1400, TRUE)>>],
      \* no active member
      [team |-> <<Member(10, FALSE)>>,
       workingHours |-> <<Hours(0, 900, 1700, TRUE)>>],
      \* no active working day
      [team |-> <<Member(10, TRUE)>>,
       workingHours |-> <<Hours(0, 900, 1700, FALSE)>>] }

\* the clock advances by ten hours, two days or a week
TickSteps == {10, 2 * HoursPerDay, 7 * HoursPerDay}

\* the calls of a generation run that can fail
GenerateCalls ==
    {"GetActiveMembers", "GetActiveDays", "GetState", "GetByDateRange",
     "Delete", "GetByDate", "Create", "UpdateState"}

\* the calls of an override operation that can fail
OverrideCalls == {"Delete", "Create"}

\* the calls of an update that can fail
UpdateCalls == {"Update"}

\* the times a human enters in the edit form, next to those of the entry
EditedTimes == {[startTime |-> 800, endTime |-> 1200]}

\* the calls a run makes at most once
SingleCalls == {"GetState", "GetByDateRange", "UpdateState"}

Failures(calls) ==
    {NoFail} \cup
    {[call |-> c, n |-> k] : c \in calls \cap SingleCalls, k \in {1}} \cup
    {[call |-> c, n |-> k] : c \in calls \ SingleCalls, k \in 1..MaxFailIndex}

NoForm == [date |-> 0, teamMemberID |-> 0, startTime |-> 0, endTime |-> 0]

\* a run starts on the stored rows with an empty call log
Start(fail) ==
    [entries |-> entries, nextID |-> nextID, state |-> scheduleState,
     log |-> <<>>, fail |-> fail]

HasFailedCall(log) == \E i \in DOMAIN log : ~log[i].ok

\* the injected failure is one the run meets, and the budget allows it
Injected(fail, out) ==
    \/ fail = NoFail
    \/ budget.failures > 0 /\ HasFailedCall(out.r.log)

\* the rows after the call, and the record of the call
Commit(op, force, id, form, fail, out) ==
    /\ entries' = out.r.entries
    /\ nextID' = out.r.nextID
    /\ scheduleState' = out.r.state
    /\ last' = [op |-> op, force |-> force, id |-> id, form |-> form,
                fail |-> fail, at |-> now,
                pre |-> [entries |-> entries, state |-> scheduleState],
                log |-> out.r.log, hasResult |-> out.hasResult,
                result |-> out.result, error |-> out.error]
    /\ UNCHANGED <<now, team, workingHours, runs>>

\* the generation runs that can be under way at once
Runs == 1..MaxRuns

\* a run that has not been started
NotStarted ==
    [pc |-> "idle", overlapped |-> FALSE, log |-> <<>>,
     activeMembers |-> <<>>, activeDays |-> <<>>,
     existingEntries |-> <<>>, workingDates |-> <<>>, entriesCreated |-> 0,
     hasResult |-> FALSE, result |-> NoResult, error |-> <<>>]

\* the entries a human picks from: those of today and the next days
Editable ==
    {e \in entries : Format(now) <= e.date /\ e.date <= Format(now) + OverrideSpan}

Init ==
    /\ now = 0
    /\ \E c \in Configurations : team = c.team /\ workingHours = c.workingHours
    /\ entries = {}
    /\ nextID = 1
    /\ scheduleState = [present |-> TRUE, lastGenerationDate |-> Format(now)]
    /\ last = [op |-> "none", force |-> FALSE, id |-> 0, form |-> NoForm,
               fail |-> NoFail, at |-> 0,
               pre |-> [entries |-> {}, state |-> scheduleState],
               log |-> <<>>, hasResult |-> FALSE, result |-> NoResult,
               error |-> <<>>]
    /\ budget = [ops |-> MaxOps, ticks |-> MaxTicks, failures |-> MaxFailures]
    /\ runs = [p \in Runs |-> NotStarted]

Spend(fail) ==
    budget' = [budget EXCEPT !.ops = @ - 1,
                             !.failures = IF fail = NoFail THEN @ ELSE @ - 1]

\* a call of GenerateSchedule(force)
Generate ==
    /\ budget.ops > 0
    /\ \E force \in BOOLEAN, fail \in Failures(GenerateCalls) :
          LET out == GenerateSchedule(Start(fail), force)
          IN  /\ Injected(fail, out)
              /\ Commit("generate", force, 0, NoForm, fail, out)
              /\ Spend(fail)

\* a call of CreateManualOverride(entryID, form) as the takeover controller
\* makes it: the form carries the date and the times of the entry
Override ==
    /\ budget.ops > 0
    /\ \E e \in Editable, m \in {team[i].id : i \in DOMAIN team},
          fail \in Failures(OverrideCalls) :
          LET form == [date |-> e.date, teamMemberID |-> m,
                       startTime |-> e.startTime, endTime |-> e.endTime]
              out == CreateManualOverride(Start(fail), e.id, form)
          IN  /\ Injected(fail, out)
              /\ Commit("createOverride", FALSE, e.id, form, fail, out)
              /\ Spend(fail)

\* a call of RemoveManualOverride(id)
Remove ==
    /\ budget.ops > 0
    /\ \E e \in Editable, fail \in Failures(OverrideCalls) :
          LET out == RemoveManualOverride(Start(fail), e.id)
          IN  /\ Injected(fail, out)
              /\ Commit("removeOverride", FALSE, e.id, NoForm, fail, out)
              /\ Spend(fail)

\* time passes
Tick ==
    /\ budget.ticks > 0
    /\ \E step \in TickSteps : now' = now + step
    /\ budget' = [budget EXCEPT !.ticks = @ - 1]
    /\ UNCHANGED <<team, workingHours, entries, nextID, scheduleState, last, runs>>

Next == Generate \/ Override \/ Remove \/ Tick

Spec == Init /\ [][Next]_vars

\* ------------------------------------------- the schedule being edited
\* The service calls alone, each collaborator call succeeding and the clock
\* standing still, in longer sequences.
InitEdits ==
    /\ now = 0
    /\ \E c \in Configurations : team = c.team /\ workingHours = c.workingHours
    /\ entries = {}
    /\ nextID = 1
    /\ scheduleState = [present |-> TRUE, lastGenerationDate |-> Format(now)]
    /\ last = [op |-> "none", force |-> FALSE, id |-> 0, form |-> NoForm,
               fail |-> NoFail, at |-> 0,
               pre |-> [entries |-> {}, state |-> scheduleState],
               log |-> <<>>, hasResult |-> FALSE, result |-> NoResult,
               error |-> <<>>]
    /\ budget = [ops |-> MaxEdits, ticks |-> 0, failures |-> 0]
    /\ runs = [p \in Runs |-> NotStarted]

NextEdits == Generate \/ Override \/ Remove

SpecEdits == InitEdits /\ [][NextEdits]_vars

\* ------------------------------------------- entries edited in the form
\* a call of UpdateScheduleEntry(id, form) as the edit controller makes it:
\* the form keeps the date of the entry and carries a member and times
UpdateEntry ==
    /\ budget.ops > 0
    /\ \E e \in Editable, m \in {team[i].id : i \in DOMAIN team},
          fail \in Failures(UpdateCalls) :
       \E t \in {[startTime |-> e.startTime, endTime |-> e.endTime]}
                    \cup EditedTimes :
          LET form == [date |-> e.date, teamMemberID |-> m,
                       startTime |-> t.startTime, endTime |-> t.endTime]
              out == UpdateScheduleEntry(Start(fail), e.id, form)
          IN  /\ Injected(fail, out)
              /\ Commit("updateEntry", FALSE, e.id, form, fail, out)
              /\ Spend(fail)

\* the service calls of the edited schedule together with the updates
NextUpdates == Generate \/ Override \/ Remove \/ UpdateEntry

SpecUpdates == InitEdits /\ [][NextUpdates]_vars

\* -------------------------------------- the times of an entry edited
\* an UpdateScheduleEntry on an entry that is no override, with the member
\* the entry has: the entry gets the times of the form and stays what it was
EditTimes ==
    /\ UpdateEntry
    /\ \A e \in entries \cup entries' : e.id = last'.id => ~e.isManualOverride

\* takeovers and their removal, on entries as generated or with edited times
NextRoundTrip == Generate \/ Override \/ Remove \/ EditTimes

SpecRoundTrip == InitEdits /\ [][NextRoundTrip]_vars

\* ------------------------------------- the working days handed over
\* generateScheduleEntries on the list of working-hours records that a
\* WorkingHoursRepository hands over as it is: the interface leaves the
\* Active field of the records to the repository, and the repositories the
\* tests of the service set up hand over records with Active unset.

\* the lists handed over, ordered by weekday
HandedDays ==
    { <<Hours(0, 900, 1700, FALSE)>>,
      <<Hours(0, 900, 1700, TRUE)>>,
      <<Hours(0, 900, 1700, TRUE), Hours(2, 1000, 1600, FALSE)>>,
      <<Hours(1, 900, 1700, FALSE), Hours(3, 900, 1700, TRUE)>>,
      <<Hours(0, 900, 1700, TRUE), Hours(1, 900, 1700, TRUE),
        Hours(5, 1000, 1400, TRUE)>> }

InitHanded ==
    /\ now = 0
    /\ \E c \in Configurations : team = c.team
    /\ Len(GetActiveMembers(team)) > 0
    /\ workingHours \in HandedDays
    /\ entries = {}
    /\ nextID = 1
    /\ scheduleState = [present |-> TRUE, lastGenerationDate |-> Format(now)]
    /\ last = [op |-> "none", force |-> FALSE, id |-> 0, form |-> NoForm,
               fail |-> NoFail, at |-> 0,
               pre |-> [entries |-> {}, state |-> scheduleState],
               log |-> <<>>, hasResult |-> FALSE, result |-> NoResult,
               error |-> <<>>]
    /\ budget = [ops |-> MaxOps, ticks |-> MaxTicks, failures |-> 0]
    /\ runs = [p \in Runs |-> NotStarted]

\* generateScheduleEntries(activeMembers, activeDays) on the list as handed
GenerateEntries ==
    /\ budget.ops > 0
    /\ LET g == generateScheduleEntries(Start(NoFail), GetActiveMembers(team),
                                        workingHours)
       IN  /\ Commit("generateEntries", TRUE, 0, NoForm, NoFail,
                     Return(g.r, FALSE, NoResult, g.err))
           /\ Spend(NoFail)

NextHanded == GenerateEntries \/ Tick

SpecHanded == InitHanded /\ [][NextHanded]_vars

\* ------------------------------------------------- the end of a month
\* Generation runs on the last days of November 2000 and the first of
\* December, with the working hours the schema installs: 30 November plus
\* three months is normalised to 2 March, 1 December plus three months is
\* 1 March.

\* the working hours of the initial schema: Monday to Friday, 09:00-17:00
DefaultWorkingHours ==
    <<Hours(0, 900, 1700, TRUE), Hours(1, 900, 1700, TRUE),
      Hours(2, 900, 1700, TRUE), Hours(3, 900, 1700, TRUE),
      Hours(4, 900, 1700, TRUE), Hours(5, 0, 0, FALSE), Hours(6, 0, 0, FALSE)>>

\* 29 November 2000, 00:00 UTC
LateNovember == ParseDate(MonthStart[10] + 28)

InitMonthEnd ==
    /\ now = LateNovember
    /\ \E c \in Configurations : team = c.team
    /\ Len(GetActiveMembers(team)) > 0
    /\ workingHours = DefaultWorkingHours
    /\ entries = {}
    /\ nextID = 1
    /\ scheduleState = [present |-> TRUE, lastGenerationDate |-> Format(now)]
    /\ last = [op |-> "none", force |-> FALSE, id |-> 0, form |-> NoForm,
               fail |-> NoFail, at |-> 0,
               pre |-> [entries |-> {}, state |-> scheduleState],
               log |-> <<>>, hasResult |-> FALSE, result |-> NoResult,
               error |-> <<>>]
    /\ budget = [ops |-> MaxOps, ticks |-> MaxDays, failures |-> 0]
    /\ runs = [p \in Runs |-> NotStarted]

\* the next day, or ten hours later
TickDay ==
    /\ budget.ticks > 0
    /\ \E step \in {10, HoursPerDay} : now' = now + step
    /\ budget' = [budget EXCEPT !.ticks = @ - 1]
    /\ UNCHANGED <<team, workingHours, entries, nextID, scheduleState, last, runs>>

NextMonthEnd == Generate \/ TickDay

SpecMonthEnd == InitMonthEnd /\ [][NextMonthEnd]_vars

\* ------------------------------------------------ the week after a run
\* Generation runs at a time of the day and shortly before and after a week
\* has passed since.

\* the clock advances by ten hours, by four hours less than a week, or by a
\* week
WeekSteps == {10, 7 * HoursPerDay - 4, 7 * HoursPerDay}

\* the schedule_state row is there, as the schema installs it, or absent, as
\* GetState provides for
InitWeek ==
    /\ now = 0
    /\ \E c \in Configurations : team = c.team /\ workingHours = c.workingHours
    /\ entries = {}
    /\ nextID = 1
    /\ \E present \in BOOLEAN :
          scheduleState = [present |-> present, lastGenerationDate |-> Format(now)]
    /\ last = [op |-> "none", force |-> FALSE, id |-> 0, form |-> NoForm,
               fail |-> NoFail, at |-> 0,
               pre |-> [entries |-> {}, state |-> scheduleState],
               log |-> <<>>, hasResult |-> FALSE, result |-> NoResult,
               error |-> <<>>]
    /\ budget = [ops |-> MaxOps, ticks |-> MaxDays, failures |-> 0]
    /\ runs = [p \in Runs |-> NotStarted]

TickWeek ==
    /\ budget.ticks > 0
    /\ \E step \in WeekSteps : now' = now + step
    /\ budget' = [budget EXCEPT !.ticks = @ - 1]
    /\ UNCHANGED <<team, workingHours, entries, nextID, scheduleState, last, runs>>

NextWeek == Generate \/ TickWeek

SpecWeek == InitWeek /\ [][NextWeek]_vars

\* -------------------------------------------------- overlapping runs
\* Forced runs of GenerateSchedule started by requests that are served at
\* once.  Nothing in the service or the repositories makes a run wait for
\* another, so the runs take turns on the shared rows.  A run gives way
\* between its steps: the fetches at its start, the fetch of the cleanup
\* window, the loop of the Deletes, the collection of the working dates, the
\* loop of the Creates, and the update of the state.

\* whether a run is under way
InProgress(p) == runs[p].pc \notin {"idle", "done", "failed"}

\* the shared rows as the run p finds them, with the calls it made so far
Resume(p) ==
    [entries |-> entries, nextID |-> nextID, state |-> scheduleState,
     log |-> runs[p].log, fail |-> NoFail]

\* the rows as a step of a run leaves them
Yield(r) ==
    /\ entries' = r.entries
    /\ nextID' = r.nextID
    /\ scheduleState' = r.state
    /\ UNCHANGED <<now, team, workingHours, last, budget>>

\* GenerateSchedule(true) up to the cleanup: validation, GetState and
\* getGenerationData; a run that starts while another is under way overlaps
\* with it
StartRun(p) ==
    /\ runs[p].pc = "idle"
    /\ LET v == validateScheduleGeneration(Resume(p))
           s == GetState(v.r)
           g == getGenerationData(s.r)
           others == {q \in Runs : q # p /\ InProgress(q)}
       IN  /\ v.err = <<>> /\ g.err = <<>>
           /\ ~skipsRegeneration(TRUE, s.lastGenerationDate)
           /\ runs' = [q \in Runs |->
                  IF q = p
                  THEN [runs[p] EXCEPT !.pc = "cleanup", !.log = g.r.log,
                                       !.activeMembers = g.activeMembers,
                                       !.activeDays = g.activeDays,
                                       !.overlapped = (others # {})]
                  ELSE IF q \in others
                  THEN [runs[q] EXCEPT !.overlapped = TRUE]
                  ELSE runs[q]]
           /\ Yield(g.r)

\* cleanupExistingEntries, the fetch of the window [tomorrow, today + 3 months]
FetchWindow(p) ==
    /\ runs[p].pc = "cleanup"
    /\ LET today == now
           startDate == AddDate(today, 0, 1)
           futureEnd == AddDate(today, HorizonMonths, 0)
           r1 == Logged(Resume(p), "GetByDateRange",
                        <<Format(startDate), Format(futureEnd)>>, TRUE)
       IN  /\ runs' = [runs EXCEPT ![p].pc = "delete", ![p].log = r1.log,
                          ![p].existingEntries =
                              GetByDateRange(entries, startDate, futureEnd)]
           /\ Yield(r1)

\* cleanupExistingEntries, the loop over the fetched entries
DeleteEntries(p) ==
    /\ runs[p].pc = "delete"
    /\ LET c == cleanupLoop(Resume(p), runs[p].existingEntries,
                            1, Len(runs[p].existingEntries))
       IN  /\ runs' = [runs EXCEPT ![p].log = c.r.log,
                          ![p].pc = IF c.err # <<>> THEN "failed" ELSE "collect",
                          ![p].error = c.err]
           /\ Yield(c.r)

\* generateScheduleEntries, the collection of the working dates
CollectDates(p) ==
    /\ runs[p].pc = "collect"
    /\ LET c == collectWorkingDates(Resume(p), runs[p].activeDays)
       IN  /\ runs' = [runs EXCEPT ![p].log = c.r.log,
                          ![p].pc = IF c.err # <<>> THEN "failed" ELSE "create",
                          ![p].workingDates = c.workingDates,
                          ![p].error = c.err]
           /\ Yield(c.r)

\* generateScheduleEntries, the loop over the working dates
CreateEntries(p) ==
    /\ runs[p].pc = "create"
    /\ LET g == generateLoop(Resume(p), runs[p].workingDates,
                             runs[p].activeMembers, runs[p].activeDays,
                             1, Len(runs[p].workingDates))
       IN  /\ runs' = [runs EXCEPT ![p].log = g.r.log,
                          ![p].pc = IF g.err # <<>> THEN "failed" ELSE "finalize",
                          ![p].entriesCreated = g.entriesCreated,
                          ![p].error = g.err]
           /\ Yield(g.r)

\* finalizeGeneration
FinishRun(p) ==
    /\ runs[p].pc = "finalize"
    /\ LET f == finalizeGeneration(Resume(p), runs[p].entriesCreated)
       IN  /\ runs' = [runs EXCEPT ![p].log = f.r.log,
                          ![p].pc = IF f.error # <<>> THEN "failed" ELSE "done",
                          ![p].hasResult = f.hasResult,
                          ![p].result = f.result,
                          ![p].error = f.error]
           /\ Yield(f.r)

\* a run of GenerateSchedule served while no other run is under way
RunAlone ==
    /\ \A p \in Runs : ~InProgress(p)
    /\ Generate

\* the team and the working hours allow generation
InitOverlap ==
    /\ now = 0
    /\ \E c \in Configurations : team = c.team /\ workingHours = c.workingHours
    /\ Len(GetActiveMembers(team)) > 0 /\ Len(GetActiveDays(workingHours)) > 0
    /\ entries = {}
    /\ nextID = 1
    /\ scheduleState = [present |-> TRUE, lastGenerationDate |-> Format(now)]
    /\ last = [op |-> "none", force |-> FALSE, id |-> 0, form |-> NoForm,
               fail |-> NoFail, at |-> 0,
               pre |-> [entries |-> {}, state |-> scheduleState],
               log |-> <<>>, hasResult |-> FALSE, result |-> NoResult,
               error |-> <<>>]
    /\ budget = [ops |-> MaxRunsAlone, ticks |-> 0, failures |-> 0]
    /\ runs = [p \in Runs |-> NotStarted]

NextOverlap ==
    \/ RunAlone
    \/ \E p \in Runs :
          \/ StartRun(p)
          \/ FetchWindow(p)
          \/ DeleteEntries(p)
          \/ CollectDates(p)
          \/ CreateEntries(p)
          \/ FinishRun(p)

SpecOverlap == InitOverlap /\ [][NextOverlap]_vars

\* ------------------------------------------- the team changed meanwhile
\* Forced runs of GenerateSchedule while team members are deactivated by
\* other requests.  A run fetches the active members twice, in its
\* validation and in getGenerationData, and gives way between the two.

\* teamService.DeactivateMember of an active member
DeactivateMember ==
    /\ \E i \in DOMAIN team :
          /\ team[i].active
          /\ team' = [team EXCEPT ![i].active = FALSE]
    /\ UNCHANGED <<now, workingHours, entries, nextID, scheduleState, last,
                   budget, runs>>

\* GenerateSchedule(true) up to the freshness gate: the validation, whose
\* failure ends the run with a result, and GetState
ValidateRun(p) ==
    /\ runs[p].pc = "idle"
    /\ LET v == validateScheduleGeneration(Resume(p))
           s == GetState(v.r)
       IN  IF v.err # <<>>
           THEN /\ runs' = [runs EXCEPT ![p].pc = "refused", ![p].log = v.r.log,
                               ![p].hasResult = TRUE,
                               ![p].result = [NoResult EXCEPT !.message = v.err]]
                /\ Yield(v.r)
           ELSE /\ ~skipsRegeneration(TRUE, s.lastGenerationDate)
                /\ runs' = [runs EXCEPT ![p].pc = "fetch", ![p].log = s.r.log]
                /\ Yield(s.r)

\* getGenerationData: the second fetch of the members and the working days
FetchData(p) ==
    /\ runs[p].pc = "fetch"
    /\ LET g == getGenerationData(Resume(p))
       IN  /\ runs' = [runs EXCEPT ![p].pc = "cleanup", ![p].log = g.r.log,
                          ![p].activeMembers = g.activeMembers,
                          ![p].activeDays = g.activeDays]
           /\ Yield(g.r)

\* generateScheduleEntries, the loop over the working dates: the first
\* createScheduleEntry divides by len(activeMembers), and the run panics
\* there when the list is empty
CreateEntriesOrPanic(p) ==
    IF Len(runs[p].activeMembers) = 0 /\ Len(runs[p].workingDates) > 0
    THEN /\ runs[p].pc = "create"
         /\ runs' = [runs EXCEPT ![p].pc = "panicked",
                        ![p].error = <<"integer divide by zero">>]
         /\ UNCHANGED <<now, team, workingHours, entries, nextID,
                        scheduleState, last, budget>>
    ELSE CreateEntries(p)

NextTeamChange ==
    \/ DeactivateMember
    \/ \E p \in Runs :
          \/ ValidateRun(p)
          \/ FetchData(p)
          \/ FetchWindow(p)
          \/ DeleteEntries(p)
          \/ CollectDates(p)
          \/ CreateEntriesOrPanic(p)
          \/ FinishRun(p)

SpecTeamChange == InitOverlap /\ [][NextTeamChange]_vars

\* ------------------------------------------------------------ properties
\* the positions of the calls of one kind in the last service call's log
Calls(name) == {i \in DOMAIN last.log : last.log[i].call = name}

\* the positions of the failed calls
FailedCalls == {i \in DOMAIN last.log : ~last.log[i].ok}

Contains(message, fragment) == \E i \in DOMAIN message : message[i] = fragment

\* the members and days the repositories hand to the run
ActiveMembers == GetActiveMembers(team)
ActiveDays == GetActiveDays(workingHours)

\* the last call was a generation run whose precondition validation passed
ValidationPassed ==
    /\ last.op = "generate"
    /\ Len(last.log) >= 2
    /\ last.log[1].ok /\ last.log[2].ok
    /\ Len(ActiveMembers) > 0 /\ Len(ActiveDays) > 0

\* the last call was a generation run that regenerated and returned success
Regenerated ==
    /\ last.op = "generate"
    /\ Calls("UpdateState") # {}
    /\ FailedCalls = {}

\* the cleanup window of the last run, as dates: [tomorrow, today + 3 months]
CleanupWindow ==
    Format(AddDate(last.at, 0, 1)) .. Format(AddDate(last.at, HorizonMonths, 0))

\* the dates the collector of the last run looked up one by one (the first
\* GetByDate of a run is the check of today)
LookedUp ==
    {last.log[i].arg : i \in {j \in Calls("GetByDate") :
                                 \E k \in Calls("GetByDate") : k < j}}

OverridesBefore(day) ==
    {e \in last.pre.entries : e.isManualOverride /\ e.date = day}

\* C1: a generation run keeps every override entry as it was and never
\* passes the id of one to Delete; every entry of the cleanup window that is
\* not an override is passed to Delete (by a cleanup that is not cut short
\* by a failed Delete).
C1_OverridesSurviveGeneration ==
    last.op = "generate" =>
        /\ \A e \in last.pre.entries : e.isManualOverride =>
              /\ e \in entries
              /\ \A i \in Calls("Delete") : last.log[i].arg # e.id
        /\ \/ \A e \in last.pre.entries :
                 (~e.isManualOverride /\ e.date \in CleanupWindow) =>
                     \E i \in Calls("Delete") : last.log[i].arg = e.id
           \/ Calls("GetByDateRange") = {}
           \/ \E i \in FailedCalls :
                 last.log[i].call \in {"Delete", "GetByDateRange"}

\* C1 happens: a completed run whose cleanup window held an override entry
\* and an entry that is none, which it deleted.
C1_Witness ==
    /\ Regenerated
    /\ \E e \in last.pre.entries : e.isManualOverride /\ e.date \in CleanupWindow
    /\ \E e \in last.pre.entries : ~e.isManualOverride /\ e.date \in CleanupWindow
    /\ Calls("Delete") # {}

\* C2: a generation run creates no entry on a date that holds an override;
\* a looked-up date with an override holds only its override afterwards.
C2_NoCreateOnOverriddenDate ==
    last.op = "generate" =>
        /\ \A i \in Calls("Create") : OverridesBefore(last.log[i].arg.date) = {}
        /\ \A d \in LookedUp : OverridesBefore(d) # {} =>
              {e \in entries : e.date = d} = OverridesBefore(d)

\* C2 happens: a completed run that looked up an overridden date and created
\* entries on other dates.
C2_Witness ==
    /\ Regenerated
    /\ \E d \in LookedUp : OverridesBefore(d) # {}
    /\ Calls("Create") # {}

\* C3: no calendar date holds more than one schedule entry.
C3_OneEntryPerDate ==
    \A e1, e2 \in entries : e1.date = e2.date => e1 = e2

\* the entries a run created
CreatedBy(record) ==
    {record.log[i].arg : i \in {j \in DOMAIN record.log :
                                   record.log[j].call = "Create" /\ record.log[j].ok}}

\* C4: two forced generation runs under the same configuration, whatever
\* their current times, create the same member for every date both create.
C4_SameMemberAtAnyTime ==
    [][(/\ last.op = "generate" /\ last.force
        /\ last'.op = "generate" /\ last'.force)
       => \A a \in CreatedBy(last), b \in CreatedBy(last') :
             a.date = b.date => a.teamMemberID = b.teamMemberID]_vars

\* the number of days d with epoch <= d < day whose weekday is active
WorkingDaysBefore(day) ==
    Cardinality({d \in EpochDay..(day - 1) :
        \E i \in DOMAIN ActiveDays :
            GetWeekdayNumber(ParseDate(d)) = ActiveDays[i].dayOfWeek})

\* C5: the member of every entry a generation run creates is
\* activeMembers[k mod len(activeMembers)], k the number of active weekdays
\* from the epoch (counted) up to the date (not counted).
C5_MemberByWorkingDaysBefore ==
    last.op = "generate" =>
        \A a \in CreatedBy(last) :
            a.teamMemberID =
                ActiveMembers[(WorkingDaysBefore(a.date) % Len(ActiveMembers)) + 1].id

\* the value GetState read in the last run
LastGenerationDateRead == ParseDate(last.pre.state.lastGenerationDate)

\* the last call was an unforced run that passed validation, read the state
\* and found fewer than 7 days elapsed since the last generation
FreshUnforcedRun ==
    /\ ValidationPassed
    /\ ~last.force
    /\ Calls("GetState") # {} /\ FailedCalls = {}
    /\ last.at - LastGenerationDateRead < FreshnessDays * HoursPerDay

\* C6: an unforced run less than 7 days after the last generation writes
\* nothing and returns the up-to-date result.
C6_FreshRunWritesNothing ==
    FreshUnforcedRun =>
        /\ Calls("Delete") = {} /\ Calls("Create") = {} /\ Calls("UpdateState") = {}
        /\ entries = last.pre.entries
        /\ scheduleState = last.pre.state
        /\ last.hasResult /\ last.error = <<>>
        /\ last.result =
              [success |-> TRUE, message |-> <<"Schedule is up to date">>,
               entriesCreated |-> 0,
               generationDate |-> LastGenerationDateRead,
               nextGenerationDue |->
                   LastGenerationDateRead + FreshnessDays * HoursPerDay]

\* C6 happens: an unforced run over a schedule with entries, three days or
\* less after the last generation.
C6_Witness ==
    /\ FreshUnforcedRun
    /\ entries # {}
    /\ last.at > LastGenerationDateRead

\* C7: a forced run that passes validation and meets no failure cleans up,
\* collects, creates one entry per collected date and stores today as the
\* last generation date, however recent the previous generation.
C7_ForceRegenerates ==
    (ValidationPassed /\ last.force /\ FailedCalls = {}) =>
        /\ Calls("GetByDateRange") # {}
        /\ Calls("GetByDate") # {}
        /\ Cardinality(Calls("Create")) =
              Cardinality({d \in LookedUp : OverridesBefore(d) = {}})
        /\ \E i \in Calls("UpdateState") : last.log[i].arg = last.at
        /\ scheduleState = [present |-> TRUE, lastGenerationDate |-> Format(last.at)]
        /\ last.hasResult /\ last.result.success
        /\ last.result.generationDate = last.at

\* C7 happens: a forced run less than 7 days after the last generation that
\* deleted and created entries.
C7_Witness ==
    /\ ValidationPassed /\ last.force /\ FailedCalls = {}
    /\ last.at - LastGenerationDateRead < FreshnessDays * HoursPerDay
    /\ Calls("Delete") # {} /\ Calls("Create") # {}

\* the last run changed neither the entries nor the state
NothingWritten ==
    /\ entries = last.pre.entries
    /\ scheduleState = last.pre.state

\* C8: without an active member a run returns success=false with "no active
\* team members found" after the member fetch alone; with a member but no
\* active working day it returns "no active working days found" after the
\* two fetches; neither touches the state or the entries.
C8_ValidationFailures ==
    last.op = "generate" =>
        /\ (Len(ActiveMembers) = 0 /\ FailedCalls = {}) =>
              /\ last.hasResult /\ last.error = <<>> /\ ~last.result.success
              /\ Contains(last.result.message, "no active team members found")
              /\ Len(last.log) = 1 /\ last.log[1].call = "GetActiveMembers"
              /\ NothingWritten
        /\ (Len(ActiveMembers) > 0 /\ Len(ActiveDays) = 0 /\ FailedCalls = {}) =>
              /\ last.hasResult /\ last.error = <<>> /\ ~last.result.success
              /\ Contains(last.result.message, "no active working days found")
              /\ Len(last.log) = 2 /\ last.log[2].call = "GetActiveDays"
              /\ NothingWritten

\* C8 happens: a run without any active member.
C8_Witness ==
    /\ last.op = "generate"
    /\ Len(ActiveMembers) = 0
    /\ FailedCalls = {}

\* the failed fetches of members or working days in the last run
FailedFetches ==
    {i \in FailedCalls : last.log[i].call \in {"GetActiveMembers", "GetActiveDays"}}

FetchMessage(i) ==
    IF last.log[i].call = "GetActiveMembers"
    THEN "failed to get active team members"
    ELSE "failed to get active working days"

\* C9 as claimed: whichever fetch of members or working days fails, the run
\* returns a result with success=false and no error.
C9_FetchFailureNeverAnError ==
    last.op = "generate" =>
        \A i \in FailedFetches :
            /\ last.hasResult /\ last.error = <<>> /\ ~last.result.success
            /\ Contains(last.result.message, FetchMessage(i))

\* C9 amended: a fetch that fails during the precondition validation (the
\* first two calls) gives a result with success=false and no error; a fetch
\* that fails when repeated after the freshness check gives an error and no
\* result.
C9_ValidationFetchFailureIsAResult ==
    last.op = "generate" =>
        \A i \in FailedFetches :
            IF i <= 2
            THEN /\ last.hasResult /\ last.error = <<>> /\ ~last.result.success
                 /\ Contains(last.result.message, FetchMessage(i))
                 /\ NothingWritten
            ELSE /\ ~last.hasResult
                 /\ Contains(last.error, FetchMessage(i))

\* C9 happens: the fetch of the working days fails during validation.
C9_Witness ==
    /\ last.op = "generate"
    /\ \E i \in FailedFetches : i = 2 /\ last.log[i].call = "GetActiveDays"

\* the calls of the generation body
BodyCalls ==
    {"GetState", "GetByDateRange", "Delete", "GetByDate", "Create", "UpdateState"}

\* C10: a failed call of the generation body makes the run return an error
\* and no result, and is the last call the run makes.
C10_BodyFailureStopsTheRun ==
    last.op = "generate" =>
        \A i \in FailedCalls : last.log[i].call \in BodyCalls =>
            /\ ~last.hasResult
            /\ last.error # <<>>
            /\ i = Len(last.log)

\* C10 happens: a Create fails after an earlier Create and a Delete succeeded.
C10_Witness ==
    /\ last.op = "generate"
    /\ \E i \in FailedCalls : last.log[i].call = "Create"
    /\ \E i \in Calls("Create") : last.log[i].ok
    /\ \E i \in Calls("Delete") : last.log[i].ok

\* the last run returned the result of a completed regeneration
GeneratedResult ==
    /\ last.hasResult /\ last.error = <<>> /\ last.result.success
    /\ Contains(last.result.message, "Successfully generated schedule with")

\* C11: a generation run changes the stored last generation date only by an
\* UpdateState that is its last call and that is followed by the result of a
\* completed regeneration; a run that returns a validation failure, the
\* up-to-date result or an error leaves the stored state as it was.
C11_StateChangesOnlyOnSuccess ==
    last.op = "generate" =>
        /\ \A i \in Calls("UpdateState") : i = Len(last.log)
        /\ scheduleState # last.pre.state =>
              /\ GeneratedResult
              /\ last.log[Len(last.log)].call = "UpdateState"
              /\ last.log[Len(last.log)].ok
        /\ ~GeneratedResult => scheduleState = last.pre.state

\* C11 happens: a run on a later day than the stored date changed the
\* stored date.
C11_Witness ==
    /\ last.op = "generate"
    /\ scheduleState # last.pre.state
    /\ Format(last.at) > last.pre.state.lastGenerationDate

\* the rows of before the last run that are gone, or not as they were
DeletedBy == last.pre.entries \ entries

\* the last run fetched the cleanup window and no Delete of it failed
CleanupCompleted ==
    /\ \E i \in Calls("GetByDateRange") : last.log[i].ok
    /\ \A i \in Calls("Delete") : last.log[i].ok

TodayBefore == {e \in last.pre.entries : e.date = Format(last.at)}

\* whether a day number falls on an active working day: day EpochDay is a
\* Monday, weekday number 0
IsWorkingDay(day) ==
    \E i \in DOMAIN ActiveDays : ActiveDays[i].dayOfWeek = (day - EpochDay) % 7

\* C13: every entry a generation run creates is dated from start up to, not
\* including, today + 3 months, where start is tomorrow when today held an
\* entry and today otherwise; a completed run creates today's entry when
\* today is a working day that held none.
C13_CreatedDatesWithinTheHorizon ==
    last.op = "generate" =>
        /\ \A a \in CreatedBy(last) :
              /\ a.date >= Format(last.at) + (IF TodayBefore = {} THEN 0 ELSE 1)
              /\ a.date < Format(AddDate(last.at, HorizonMonths, 0))
        /\ (Regenerated /\ TodayBefore = {} /\ IsWorkingDay(Format(last.at))) =>
              \E a \in CreatedBy(last) : a.date = Format(last.at)

\* C13 happens: a completed run created entries on a working day that held
\* an entry already.
C13_Witness ==
    /\ Regenerated
    /\ TodayBefore # {}
    /\ IsWorkingDay(Format(last.at))
    /\ CreatedBy(last) # {}

\* C14: a generation run creates no entry on a date whose weekday number
\* (0 = Monday .. 6 = Sunday) is the day of none of the working-hours
\* records handed to it.
C14_NoEntryOnNonWorkingDay ==
    last.op = "generate" =>
        \A a \in CreatedBy(last) : IsWorkingDay(a.date)

\* C14 happens: a completed run created entries and passed over the days of
\* its first week that are no working days.
C14_Witness ==
    /\ Regenerated
    /\ CreatedBy(last) # {}
    /\ \E d \in Format(last.at)..(Format(last.at) + 6) :
          /\ ~IsWorkingDay(d)
          /\ \A a \in CreatedBy(last) : a.date # d

\* the positions of the successful Create calls of the last run
Created == {i \in Calls("Create") : last.log[i].ok}

\* the place of a member in the list of the active members
MemberPosition(id) ==
    CHOOSE i \in DOMAIN ActiveMembers : ActiveMembers[i].id = id

\* no override is dated within the horizon of the last run
NoOverrideInHorizon ==
    \A e \in last.pre.entries :
        e.isManualOverride =>
            \/ e.date < Format(last.at)
            \/ e.date >= Format(AddDate(last.at, HorizonMonths, 0))

\* C15: in a run with more than one active member and no override in the
\* horizon, the entries are created in the order of their dates, and the
\* member of each is the one that follows, cyclically in the order of the
\* active members, the member of the entry created before it; a run that
\* creates as many entries as there are members uses every member.
C15_MembersRotate ==
    (last.op = "generate" /\ Len(ActiveMembers) > 1 /\ NoOverrideInHorizon) =>
        /\ \A i, j \in Created :
              (i < j /\ ~\E k \in Created : i < k /\ k < j) =>
                  /\ last.log[i].arg.date < last.log[j].arg.date
                  /\ MemberPosition(last.log[j].arg.teamMemberID) =
                        (MemberPosition(last.log[i].arg.teamMemberID)
                            % Len(ActiveMembers)) + 1
        /\ Cardinality(Created) >= Len(ActiveMembers) =>
              \A m \in DOMAIN ActiveMembers :
                  \E i \in Created : last.log[i].arg.teamMemberID = ActiveMembers[m].id

\* C15 amended: the same for the entries dated on or after the epoch; the
\* entries dated before the epoch all carry the first active member.
C15_MembersRotateFromTheEpoch ==
    (last.op = "generate" /\ Len(ActiveMembers) > 1 /\ NoOverrideInHorizon) =>
        /\ \A i, j \in Created :
              (i < j /\ ~\E k \in Created : i < k /\ k < j) =>
                  /\ last.log[i].arg.date < last.log[j].arg.date
                  /\ last.log[i].arg.date >= EpochDay =>
                        MemberPosition(last.log[j].arg.teamMemberID) =
                            (MemberPosition(last.log[i].arg.teamMemberID)
                                % Len(ActiveMembers)) + 1
        /\ \A i \in Created :
              last.log[i].arg.date < EpochDay =>
                  last.log[i].arg.teamMemberID = ActiveMembers[1].id
        /\ Cardinality({i \in Created : last.log[i].arg.date >= EpochDay})
              >= Len(ActiveMembers) =>
              \A m \in DOMAIN ActiveMembers :
                  \E i \in Created : last.log[i].arg.teamMemberID = ActiveMembers[m].id

\* C15 happens: a completed run with three active members created entries
\* over more than a week, the first of them dated before the epoch.
C15_Witness ==
    /\ Regenerated
    /\ Len(ActiveMembers) = 3
    /\ NoOverrideInHorizon
    /\ Cardinality(Created) > 7
    /\ \E i \in Created : last.log[i].arg.date < EpochDay

\* C16: a run that completes the regeneration returns success with the
\* message "Successfully generated schedule with n entries", n the number
\* of its Create calls, one for each collected working date; the generation
\* date of the result is the current time, whose date is the one stored,
\* and the next generation is due 7 days after it.
C16_ResultOfACompletedRun ==
    Regenerated =>
        LET n == Cardinality(Calls("Create"))
        IN  /\ last.hasResult /\ last.error = <<>>
            /\ last.result.success
            /\ last.result.message =
                  <<"Successfully generated schedule with", ToString(n), "entries">>
            /\ last.result.entriesCreated = n
            /\ n = Cardinality({d \in LookedUp : OverridesBefore(d) = {}})
            /\ n = Cardinality(entries \ last.pre.entries)
            /\ last.result.generationDate = last.at
            /\ scheduleState.lastGenerationDate = Format(last.result.generationDate)
            /\ last.result.nextGenerationDue =
                  last.result.generationDate + FreshnessDays * HoursPerDay

\* C16 happens: a run at ten o'clock completed the regeneration around an
\* overridden date.
C16_Witness ==
    /\ Regenerated
    /\ Clock(last.at) = 10
    /\ Calls("Create") # {}
    /\ \E d \in LookedUp : OverridesBefore(d) # {}

\* a row without its id
Content(e) ==
    [date |-> e.date, teamMemberID |-> e.teamMemberID,
     startTime |-> e.startTime, endTime |-> e.endTime,
     isManualOverride |-> e.isManualOverride,
     originalTeamMemberID |-> e.originalTeamMemberID]

\* the rows of a set without their ids
Contents(rows) == {Content(e) : e \in rows}

\* C17: a forced run that completes right after a completed forced run, at
\* the same current time, leaves the same entries but for their ids: the
\* same contents, and as many rows.
C17_SecondRunChangesNothing ==
    [][(/\ Regenerated /\ last.force /\ last.at = now
        /\ now' = now
        /\ last'.op = "generate" /\ last'.force
        /\ Calls("UpdateState")' # {} /\ FailedCalls' = {})
       => /\ Contents(entries') = Contents(entries)
          /\ Cardinality(entries') = Cardinality(entries)]_vars

\* C17 happens: a completed forced run deleted rows and left the contents of
\* the schedule as they were at the same time of the same day.
C17_Witness ==
    /\ Regenerated /\ last.force
    /\ Calls("Delete") # {} /\ Calls("Create") # {}
    /\ Contents(entries) = Contents(last.pre.entries)
    /\ last.pre.state.lastGenerationDate = Format(last.at)
    /\ \E e \in entries : e.isManualOverride

\* the row the last call was made on, as it was before the call
Target == {e \in last.pre.entries : e.id = last.id}

\* the last call was a CreateManualOverride that returned no error, made on
\* a row that was no override
OverrodeAutoEntry ==
    /\ last.op = "createOverride"
    /\ last.error = <<>>
    /\ \E e \in Target : ~e.isManualOverride

\* C18: CreateManualOverride on a row that is no override removes that row
\* and adds one row in its place: an override with the requested member,
\* date and times, whose original member is the member of the removed row;
\* every other row is as it was, and there are as many rows as before.
C18_OverrideReplacesAutoEntry ==
    OverrodeAutoEntry =>
        \A e \in Target :
            /\ last.pre.entries \ entries = {e}
            /\ \E new \in entries :
                  /\ entries \ last.pre.entries = {new}
                  /\ Content(new) =
                        [date |-> last.form.date,
                         teamMemberID |-> last.form.teamMemberID,
                         startTime |-> last.form.startTime,
                         endTime |-> last.form.endTime,
                         isManualOverride |-> TRUE,
                         originalTeamMemberID |-> e.teamMemberID]
                  /\ \A o \in last.pre.entries : new.id # o.id
            /\ Cardinality(entries) = Cardinality(last.pre.entries)

\* C18 happens: an entry was taken over by another member than its own.
C18_Witness ==
    /\ OverrodeAutoEntry
    /\ \E e \in Target : e.teamMemberID # last.form.teamMemberID

\* the working-hours row of the weekday of a day number
HoursOf(day) ==
    CHOOSE i \in DOMAIN workingHours :
        workingHours[i].dayOfWeek = (day - EpochDay) % 7

\* the row the last call was made on is an override that stores its
\* original member
TargetIsRestorable ==
    \E e \in Target : e.isManualOverride /\ e.originalTeamMemberID # NoMember

\* C19: RemoveManualOverride on an override that stores its original member
\* removes that row and adds one row for the same date that is no override,
\* with the stored original member and the times of the working hours of the
\* date's weekday (when no collaborator call fails); on a row that is no
\* override, or stores no original member, it returns an error and changes
\* nothing.
C19_RemoveRestoresOriginal ==
    (last.op = "removeOverride" /\ Target # {}) =>
        \A e \in Target :
            /\ (TargetIsRestorable /\ FailedCalls = {}) =>
                  /\ last.error = <<>>
                  /\ last.pre.entries \ entries = {e}
                  /\ \E new \in entries :
                        /\ entries \ last.pre.entries = {new}
                        /\ Content(new) =
                              [date |-> e.date,
                               teamMemberID |-> e.originalTeamMemberID,
                               startTime |-> workingHours[HoursOf(e.date)].startTime,
                               endTime |-> workingHours[HoursOf(e.date)].endTime,
                               isManualOverride |-> FALSE,
                               originalTeamMemberID |-> NoMember]
            /\ ~TargetIsRestorable =>
                  /\ last.error # <<>>
                  /\ NothingWritten
                  /\ Calls("Delete") = {} /\ Calls("Create") = {}

\* C19 happens: an override made by another member than the original one
\* was removed.
C19_Witness ==
    /\ last.op = "removeOverride"
    /\ TargetIsRestorable /\ FailedCalls = {}
    /\ \E e \in Target : e.teamMemberID # e.originalTeamMemberID

\* a removal was refused on an override without a stored original member
RefusedWithoutOriginal ==
    /\ last.op = "removeOverride"
    /\ \E e \in Target : e.isManualOverride /\ e.originalTeamMemberID = NoMember

\* a removal was refused on a row that is no override
RefusedOnAutoEntry ==
    /\ last.op = "removeOverride"
    /\ \E e \in Target : ~e.isManualOverride

\* the ids of the rows the run p deleted, and of those it created
DeletedIn(p) ==
    {runs[p].log[i].arg : i \in {j \in DOMAIN runs[p].log :
        runs[p].log[j].call = "Delete" /\ runs[p].log[j].ok}}

CreatedIn(p) ==
    {runs[p].log[i].arg.id : i \in {j \in DOMAIN runs[p].log :
        runs[p].log[j].call = "Create" /\ runs[p].log[j].ok}}

\* the pairs of rows that are no overrides and share a date
TwoAutoEntries ==
    {pair \in entries \X entries :
        /\ pair[1].id < pair[2].id
        /\ pair[1].date = pair[2].date
        /\ ~pair[1].isManualOverride /\ ~pair[2].isManualOverride}

\* the run p ended on a Delete of a row that another run had deleted
FailedOnDeletedEntry(p) ==
    /\ runs[p].pc = "failed"
    /\ LET call == runs[p].log[Len(runs[p].log)]
       IN  /\ call.call = "Delete" /\ ~call.ok
           /\ \E i \in DOMAIN runs[p].existingEntries :
                 runs[p].existingEntries[i].id = call.arg
           /\ \E q \in Runs \ {p} : call.arg \in DeletedIn(q)

\* C20: runs are not kept apart.  A date with two rows that are no
\* overrides, and a run that fails, come from runs that overlapped and from
\* nothing else: the two rows were created by two runs that overlapped, and
\* the failed run overlapped with a run that deleted the row it went on to
\* delete.  Runs that follow one another leave neither.
C20_AnomaliesComeFromOverlap ==
    /\ \A pair \in TwoAutoEntries :
          \E p, q \in Runs :
              /\ p # q
              /\ runs[p].overlapped /\ runs[q].overlapped
              /\ pair[1].id \in CreatedIn(p) /\ pair[2].id \in CreatedIn(q)
    /\ \A p \in Runs :
          runs[p].pc = "failed" => runs[p].overlapped /\ FailedOnDeletedEntry(p)

\* C20 happens: two overlapping runs both completed and a date holds two
\* rows that are no overrides.
C20_Witness ==
    /\ \A p \in Runs : runs[p].pc = "done" /\ runs[p].overlapped
    /\ TwoAutoEntries # {}

\* the other outcome: of two overlapping runs one failed on a Delete of a
\* row the other had deleted
OneRunFailedOnDeletedEntry ==
    \E p \in Runs : runs[p].overlapped /\ FailedOnDeletedEntry(p)

\* ---------------------------------------------------------------- C21
\* the entry a successful UpdateScheduleEntry wrote
Updated == {e \in entries : e.id = last.id}

UpdateSucceeded == last.op = "updateEntry" /\ last.error = <<>>

\* C21: after a successful UpdateScheduleEntry the entry is an override
\* (isManualOverride = true), whichever member the form names.
C21_UpdatedEntryIsAnOverride ==
    UpdateSucceeded => \A e \in Updated : e.isManualOverride

\* an override that a successful update with its own member has turned into
\* an entry the cleanup deletes
UpdatedOverrideIsNoOverride ==
    /\ UpdateSucceeded
    /\ \E e \in Updated, o \in last.pre.entries :
          /\ o.id = e.id /\ o.isManualOverride
          /\ o.teamMemberID = e.teamMemberID
          /\ isDeletedByCleanup(e)

\* ---------------------------------------------------------------- C22
\* the weekday numbers (0 = Monday) the collector takes dates of
CollectedWeekdays(handed) ==
    {w \in 0..6 : findWorkingHoursForDay(handed, w) # <<>>}

\* the weekday numbers the assignment function counts: those of the days of
\* the epoch's week that raise the count
CountedWeekdays(handed) ==
    {w \in 0..6 :
        calculateWorkingDaysSinceEpoch(ParseDate(EpochDay + w + 1), handed)
            > calculateWorkingDaysSinceEpoch(ParseDate(EpochDay + w), handed)}

\* C22: an entry is created only on a date whose weekday is that of a handed
\* record with active = true, and the weekdays the collector takes are those
\* the assignment function counts.
C22_OnlyActiveRecordsCollect ==
    last.op = "generateEntries" =>
        /\ \A a \in CreatedBy(last) :
              \E i \in DOMAIN workingHours :
                  /\ workingHours[i].active
                  /\ workingHours[i].dayOfWeek = (a.date - EpochDay) % 7
        /\ CollectedWeekdays(workingHours) = CountedWeekdays(workingHours)

\* entries created on the weekday of a record with active = false, none of
\* which the assignment function counts
InactiveRecordCollected ==
    /\ last.op = "generateEntries"
    /\ \E a \in CreatedBy(last), i \in DOMAIN workingHours :
          /\ ~workingHours[i].active
          /\ workingHours[i].dayOfWeek = (a.date - EpochDay) % 7
          /\ workingHours[i].dayOfWeek \notin CountedWeekdays(workingHours)

\* ---------------------------------------------------------------- C23
EntriesOn(rows, day) == {e \in rows : e.date = day}

\* C23: after a completed generation run, every active working day of the
\* cleanup window [tomorrow, today + 3 months] that held an entry before the
\* run holds exactly one entry.
C23_RunKeepsCoverage ==
    Regenerated =>
        \A d \in CleanupWindow :
            (IsWorkingDay(d) /\ EntriesOn(last.pre.entries, d) # {}) =>
                Cardinality(EntriesOn(entries, d)) = 1

\* a completed run deleted the entry of the last day of its cleanup window,
\* a working day, and left the day without an entry
LastDayOfWindowLost ==
    LET d == Format(AddDate(last.at, HorizonMonths, 0))
    IN  /\ Regenerated
        /\ IsWorkingDay(d)
        /\ \E e \in EntriesOn(last.pre.entries, d) :
              \E i \in Calls("Delete") : last.log[i].arg = e.id /\ last.log[i].ok
        /\ EntriesOn(entries, d) = {}

\* ---------------------------------------------------------------- C24
\* C24: a RemoveManualOverride that returns an error leaves the schedule
\* entries as they were before the call.
C24_FailedRemoveChangesNothing ==
    (last.op = "removeOverride" /\ last.error # <<>>) =>
        entries = last.pre.entries

\* a RemoveManualOverride deleted the override, failed to create the restored
\* entry and left the date without an entry
OverrideLostWithoutRestore ==
    /\ last.op = "removeOverride"
    /\ Contains(last.error, "failed to restore original assignment")
    /\ \E o \in last.pre.entries :
          /\ o.id = last.id /\ o.isManualOverride
          /\ EntriesOn(entries, o.date) = {}

\* ---------------------------------------------------------------- C25
\* the last call was a RemoveManualOverride that returned no error
RemoveSucceeded == last.op = "removeOverride" /\ last.error = <<>>

AutoEntriesOn(rows, day) == {e \in EntriesOn(rows, day) : ~e.isManualOverride}

RestoredAfterGeneration ==
    /\ RemoveSucceeded
    /\ \E o \in Target :
          /\ AutoEntriesOn(entries, o.date) # {}
          /\ \E a \in last.pre.entries :
                ~a.isManualOverride /\ a.date # o.date /\ a.id > o.id

\* ---------------------------------------------------------------- C26
\* C26: the entry a CreateManualOverride inserts stores an original member,
\* whether the entry it was made on was an override or not, so that a
\* RemoveManualOverride of it is not refused for a missing original member.
C26_CreatedOverrideStoresOriginal ==
    (last.op = "createOverride" /\ last.error = <<>>) =>
        \A new \in entries \ last.pre.entries :
            new.originalTeamMemberID # NoMember

\* a CreateManualOverride on an override inserted an override that stores no
\* original member
OverrideOfOverrideStoresNone ==
    /\ last.op = "createOverride" /\ last.error = <<>>
    /\ \E e \in Target : e.isManualOverride
    /\ \E new \in entries \ last.pre.entries :
          new.isManualOverride /\ new.originalTeamMemberID = NoMember

\* ---------------------------------------------------------------- C27
\* C27: a run that is about to assign members to its working dates holds a
\* list of active members that is not empty, so that no run divides by zero.
C27_AssignmentHasMembers ==
    \A p \in Runs :
        /\ (runs[p].pc = "create" /\ Len(runs[p].workingDates) > 0) =>
              Len(runs[p].activeMembers) > 0
        /\ runs[p].pc # "panicked"

\* a run passed its validation, fetched an empty list of members after the
\* last member was deactivated, and panicked after its cleanup
RunPanicked ==
    \E p \in Runs :
        /\ runs[p].pc = "panicked"
        /\ \E i \in DOMAIN runs[p].log :
              runs[p].log[i].call = "GetByDateRange" /\ runs[p].log[i].ok
        /\ GetActiveMembers(team) = <<>>

\* ---------------------------------------------------------------- C28
\* C28: a call of GenerateSchedule(false) made less than seven days after
\* the time of the run that regenerated and stored the state before it
\* returns the up-to-date result and writes nothing.
C28_NoRegenerationWithinAWeek ==
    [][(/\ Regenerated
        /\ budget'.ops < budget.ops
        /\ last'.op = "generate" /\ ~last'.force
        /\ now - last.at < FreshnessDays * HoursPerDay)
          => /\ Contains(last'.result.message, "Schedule is up to date")
             /\ entries' = entries
             /\ nextID' = nextID
             /\ scheduleState' = scheduleState]_vars

\* ---------------------------------------------------------------- C29
\* the last call was a generation run, with its validation passed, on a
\* store without a state row: the first read of the state
FirstRead(call, members, days) ==
    /\ call.op = "generate"
    /\ ~call.pre.state.present
    /\ Len(GetActiveMembers(members)) > 0 /\ Len(GetActiveDays(days)) > 0

\* C29, the first read: GenerateSchedule(false) on a store without a state
\* row stores today's date, returns the up-to-date result and creates no
\* entry.
C29_FirstReadIsUpToDate ==
    (FirstRead(last, team, workingHours) /\ ~last.force) =>
        /\ scheduleState = [present |-> TRUE, lastGenerationDate |-> Format(last.at)]
        /\ Contains(last.result.message, "Schedule is up to date")
        /\ entries = last.pre.entries
        /\ CreatedBy(last) = {}

\* C29: GenerateSchedule(false) on a store without a state row stores
\* today's date, returns the up-to-date result and creates no entry; after
\* that first read, a call that creates entries is forced or is made seven
\* days or more after the first read.
C29_EntriesOnlyByForceOrAfterAWeek ==
    [][/\ (FirstRead(last', team', workingHours') /\ ~last'.force) =>
             /\ scheduleState' =
                   [present |-> TRUE, lastGenerationDate |-> Format(last'.at)]
             /\ Contains(last'.result.message, "Schedule is up to date")
             /\ entries' = last'.pre.entries
       /\ (/\ FirstRead(last, team, workingHours)
           /\ budget'.ops < budget.ops
           /\ last'.op = "generate"
           /\ CreatedBy(last') # {})
             => \/ last'.force
                \/ now - last.at >= FreshnessDays * HoursPerDay]_vars

\* the first read of the state, by an unforced run, later than midnight
FirstReadDuringTheDay ==
    /\ FirstRead(last, team, workingHours) /\ ~last.force
    /\ Clock(last.at) > 0
    /\ scheduleState.present

\* ---------------------------------------------------------------- C30
\* the last call was a forced run that regenerated a schedule without
\* overrides
ForcedRunWithoutOverrides ==
    /\ Regenerated /\ last.force
    /\ \A e \in last.pre.entries : ~e.isManualOverride

\* the dates from tomorrow up to, not including, today + 3 months
HorizonFromTomorrow ==
    (Format(last.at) + 1) .. (Format(AddDate(last.at, HorizonMonths, 0)) - 1)

\* C30: after a forced run that regenerated a schedule without overrides,
\* every active working day from tomorrow up to, not including, today + 3
\* months holds exactly one entry, which is no override and has the member
\* activeMembers[k mod len(activeMembers)], k the number of active weekdays
\* from the epoch up to the date (not counted); no other day of that range
\* holds an entry that is no override.
C30_HorizonAfterForcedRun ==
    ForcedRunWithoutOverrides =>
        \A d \in HorizonFromTomorrow :
            IF IsWorkingDay(d)
            THEN \E e \in entries :
                    /\ EntriesOn(entries, d) = {e}
                    /\ ~e.isManualOverride
                    /\ e.teamMemberID =
                          ActiveMembers[(WorkingDaysBefore(d) % Len(ActiveMembers)) + 1].id
            ELSE AutoEntriesOn(entries, d) = {}

\* the same without the member: one entry, no override, on every active
\* working day of the range, and none that is no override on the other days
OneAutoEntryPerWorkingDay ==
    ForcedRunWithoutOverrides =>
        \A d \in HorizonFromTomorrow :
            IF IsWorkingDay(d)
            THEN \E e \in entries :
                    EntriesOn(entries, d) = {e} /\ ~e.isManualOverride
            ELSE AutoEntriesOn(entries, d) = {}

\* a forced run later than midnight gave the working days of its horizon
\* the member after the one of the working days counted before the date
MemberOffByOne ==
    /\ ForcedRunWithoutOverrides
    /\ Clock(last.at) > 0
    /\ Len(ActiveMembers) > 1
    /\ \A d \in HorizonFromTomorrow :
          IsWorkingDay(d) =>
              \E e \in EntriesOn(entries, d) :
                  e.teamMemberID =
                      ActiveMembers[((WorkingDaysBefore(d) + 1) % Len(ActiveMembers)) + 1].id
====
